---- MODULE Spec2Model ----
(***************************************************************************)
(* Retrieval subsystem of the legal-forms repository: the crawled_pages    *)
(* table, the two ingestion routines that fill it                          *)
(* (SimpleRobustCrawler.store_forms_in_supabase and                        *)
(* ComprehensiveLegalCrawler.store_documents_with_embeddings) and the      *)
(* query facade CourtFormsAgent.search_vector_database with its client     *)
(* side fallback _manual_similarity_search.                                *)
(*                                                                         *)
(* Specifications.                                                         *)
(*  - Spec: searches and single-topic ingestion on a table the crawlers    *)
(*    fill, the fallback reading the table in any order.                   *)
(*  - SpecScan: searches on a table larger than the fallback's scan.       *)
(*  - SpecStored: searches and fix_embeddings on rows whose embedding      *)
(*    column reads back in every representation.                           *)
(*  - SpecMeta: search_vector_database and search_by_topic on rows whose   *)
(*    metadata is full, partial, empty or null.                            *)
(*  - SpecMcp: get_mcp_session_id and call_mcp_tool.                       *)
(*  - SpecTopics: the loop of crawl_all_topics, one step per topic.        *)
(*                                                                         *)
(* Representation choices.                                                 *)
(*  - A vector of the embedding model is [dim, lead]: its dimension and    *)
(*    its leading components; every further component is 0.               *)
(*  - A similarity s (a float in [-1,1]) is kept as the exact fraction     *)
(*    sgn(s)*s^2 = num/den.  x |-> sgn(x)*x^2 is strictly increasing, so   *)
(*    every comparison of the code (>= threshold, sort order, equality)    *)
(*    is decided exactly by cross-multiplication.  Thresholds are kept in  *)
(*    the same form: 0.0 is 0/1, 0.1 is 1/100.                            *)
(*  - A text built by an f-string is the tuple of its interpolated parts.  *)
(***************************************************************************)
EXTENDS Integers, Sequences, FiniteSets, TLC

(* ------------------------------ bounds --------------------------------- *)
MaxForms == 2        \* forms found by one crawl of one topic
MaxLimit == 2        \* largest result limit k a caller passes

(* -------------------------- program constants -------------------------- *)
EmbeddingDim == 384
ScanCap == 1000
ScanFactor == 20
SimpleBatchSize == 5
ComprehensiveBatchSize == 10

Min(a, b) == IF a <= b THEN a ELSE b

(* ------------------------------ vectors -------------------------------- *)
Vec(a, b) == [dim |-> EmbeddingDim, lead |-> <<a, b>>]

\* [0.0] * 384
ZeroVec == [dim |-> EmbeddingDim, lead |-> <<0, 0>>]

RECURSIVE DotLead(_, _, _)
DotLead(u, v, i) ==
    IF i = 0 THEN 0 ELSE u[i] * v[i] + DotLead(u, v, i - 1)

\* np.dot(a, b); the caller has checked a.dim = b.dim
Dot(a, b) == DotLead(a.lead, b.lead, Len(a.lead))

\* np.linalg.norm(a) ** 2
NormSq(a) == Dot(a, a)

Sgn(x) == IF x > 0 THEN 1 ELSE IF x < 0 THEN -1 ELSE 0

\* dot / (norm_query * norm_stored), as sgn(s)*s^2; both norms are > 0
CosineSim(q, e) ==
    [num |-> Sgn(Dot(q, e)) * Dot(q, e) * Dot(q, e), den |-> NormSq(q) * NormSq(e)]

\* the comparison turned around: <=
SimLE(s, t) == s.num * t.den <= t.num * s.den

\* similarity >= similarity_threshold, on fractions with positive denominators
SimGE(s, t) == s.num * t.den >= t.num * s.den
SimEQ(s, t) == s.num * t.den = t.num * s.den
SimZero == [num |-> 0, den |-> 1]

(* ------------------------- the embedding model ------------------------- *)
QueryTexts == {"", " ", "divorce papers"}

Codes == {"FL-100", "FL-300"}
Titles == {"Petition", "Petition español"}
Topic == "divorce"

\* SentenceTransformer.encode on a query text: a fixed function from text to
\* vectors
EncodeQuery(text) ==
    CASE text = "divorce papers" -> Vec(1, 0)
      [] OTHER                   -> Vec(1, 1)

\* SentenceTransformer.encode on a document content <<form_code, title, topic>>.
\* The table gives two contents the same direction (they tie for every
\* query) and the others different directions.
EncodeContent(text) ==
    IF text[1] = "FL-100"
    THEN (IF text[2] = "Petition" THEN Vec(1, 0) ELSE Vec(2, 0))
    ELSE (IF text[2] = "Petition" THEN Vec(1, 1) ELSE Vec(0, 1))

\* CourtFormsAgent.create_query_embedding: the zero vector when encode raises
create_query_embedding(query, modelOk) ==
    IF modelOk THEN EncodeQuery(query) ELSE ZeroVec

\* the fallback value of the wrong shape: [[]] * len(texts)
create_embeddings_empty(texts, modelOk) ==
    [i \in 1..Len(texts) |->
        IF modelOk THEN EncodeContent(texts[i]) ELSE [dim |-> 0, lead |-> <<>>]]

\* ComprehensiveLegalCrawler.create_embeddings: one vector per text, or one
\* zero vector per text when encode raises
create_embeddings(texts, modelOk) ==
    [i \in 1..Len(texts) |-> IF modelOk THEN EncodeContent(texts[i]) ELSE ZeroVec]

(* --------------------------- title cleaning ---------------------------- *)
\* CourtFormsAgent._clean_title_to_english on the titles of the model
_clean_title_to_english(title) ==
    CASE title = ""                 -> "Unknown Form"
      [] title = "Petition español" -> "Petition"
      [] OTHER                      -> title

(* ------------------------------- state --------------------------------- *)
VARIABLES
    supabase_client,   \* SUPABASE_URL and SUPABASE_SERVICE_KEY are set and
                       \* create_client works: the agent's supabase_client is
                       \* set (TRUE) or None, and a crawler can be constructed
    crawled_pages,     \* rows of the table, in insertion order
    last,              \* the call in progress: what it did and returned; idle
                       \* between calls (calls are synchronous, one at a time)
    mcp_session_id     \* the agent's cached MCP session id

vars == <<supabase_client, crawled_pages, last, mcp_session_id>>

\* self.mcp_session_id: None, or a string
NoSession == [set |-> FALSE, id |-> ""]
SessionOf(id) == [set |-> TRUE, id |-> id]

\* the embedding column as the client reads it back: a serialized vector
StoredEmbedding(v) == [rep |-> "str", vec |-> v]

KeyOf(r) == <<r.url, r.chunk_number>>
KeysOf(rows) == {KeyOf(rows[i]) : i \in 1..Len(rows)}

Take(s, n) == SubSeq(s, 1, Min(n, Len(s)))

\* dict.get(key, default)
Get(m, key, default) == IF key \in DOMAIN m THEN m[key] ELSE default

(* ------------------- reading the table: the fallback ------------------- *)
\* A metadata column that reads back as JSON null (None in Python), and the
\* empty object
NullMetadata == [null |-> TRUE]
EmptyMetadata == [k \in {} |-> ""]

\* metadata = item.get('metadata', {}) followed by metadata.get(...): raises
\* AttributeError when the value is None
MetadataRaises(item) == item.metadata = NullMetadata

\* The formatted result of both search paths (the dict appended to
\* filtered_results / similarities)
FormatResult(item, similarity) ==
    LET metadata == item.metadata
    IN  [title      |-> _clean_title_to_english(Get(metadata, "title", "Unknown Form")),
         url        |-> item.url,
         form_code  |-> Get(metadata, "form_code", ""),
         topic      |-> Get(metadata, "topic", ""),
         content    |-> item.content,
         similarity |-> similarity,
         metadata   |-> metadata]

\* ast.literal_eval(item['embedding']) followed by np.dot: succeeds only on a
\* serialized vector of the query's dimension; anything else raises and the
\* record is skipped
Parses(item, query_vec) ==
    /\ item.embedding.rep = "str"
    /\ item.embedding.vec.dim = query_vec.dim

\* the per-record try/except left out: the error of a record ends the scan
\* with nothing collected
ScanStepAborting(similarities, item, query_vec, similarity_threshold) ==
    IF ~Parses(item, query_vec) THEN <<>>
    ELSE LET stored == item.embedding.vec
         IN  IF NormSq(query_vec) > 0 /\ NormSq(stored) > 0
                /\ SimGE(CosineSim(query_vec, stored), similarity_threshold)
             THEN (IF MetadataRaises(item) THEN <<>>
                   ELSE Append(similarities,
                               FormatResult(item, CosineSim(query_vec, stored))))
             ELSE similarities

\* The body of the loop of _manual_similarity_search for one record: the
\* results so far, extended by the record when it parses, both norms are
\* positive and its similarity reaches the threshold.  Formatting a record
\* whose metadata is None raises inside the per-record try, so that record
\* is passed over like one that does not parse.
ScanStep(similarities, item, query_vec, similarity_threshold) ==
    IF ~Parses(item, query_vec) THEN similarities
    ELSE LET stored == item.embedding.vec
         IN  IF NormSq(query_vec) > 0 /\ NormSq(stored) > 0
             THEN LET similarity == CosineSim(query_vec, stored)
                  IN  IF SimGE(similarity, similarity_threshold)
                      THEN (IF MetadataRaises(item) THEN similarities
                            ELSE Append(similarities, FormatResult(item, similarity)))
                      ELSE similarities
             ELSE similarities

RECURSIVE ScanLoop(_, _, _, _)
ScanLoop(similarities, data, query_vec, similarity_threshold) ==
    IF data = <<>> THEN similarities
    ELSE ScanLoop(ScanStep(similarities, Head(data), query_vec, similarity_threshold),
                  Tail(data), query_vec, similarity_threshold)

\* list.sort(key=similarity, reverse=True): stable, so equal similarities keep
\* the order they had in the list.  InsertDesc puts x behind every element
\* whose similarity is >= its own.
RECURSIVE InsertDesc(_, _)
InsertDesc(sorted, x) ==
    IF sorted = <<>> THEN <<x>>
    ELSE IF SimGE(Head(sorted).similarity, x.similarity)
         THEN <<Head(sorted)>> \o InsertDesc(Tail(sorted), x)
         ELSE <<x>> \o sorted

RECURSIVE SortDesc(_, _)
SortDesc(sorted, rest) ==
    IF rest = <<>> THEN sorted ELSE SortDesc(InsertDesc(sorted, Head(rest)), Tail(rest))

\* the slice left out: the whole sorted list
SliceToWhole(s, limit) == s

\* similarities[:limit]; a negative limit drops that many elements from the
\* end
SliceTo(s, limit) ==
    IF limit >= 0 THEN Take(s, limit)
    ELSE IF Len(s) + limit > 0 THEN Take(s, Len(s) + limit) ELSE <<>>

\* the cap left out: .limit(limit * 20)
ScanLimitUncapped(limit) == limit * ScanFactor

\* .limit(min(1000, limit * 20))
ScanLimit(limit) == Min(ScanCap, limit * ScanFactor)

\* _manual_similarity_search without its outer try/except: a failing table
\* read leaves the method as an exception
ManualSearchUncaught(data, scanOk, query_embedding, limit, similarity_threshold) ==
    IF ~scanOk THEN [raised |-> TRUE, value |-> <<>>]
    ELSE IF data = <<>> THEN [raised |-> FALSE, value |-> <<>>]
    ELSE [raised |-> FALSE,
          value |-> SliceTo(SortDesc(<<>>, ScanLoop(<<>>, data, query_embedding,
                                                    similarity_threshold)), limit)]

\* CourtFormsAgent._manual_similarity_search.  data is what the table read
\* returned; scanOk = FALSE is the read raising, which the outer except turns
\* into [].  The value says whether an exception left the method and what it
\* returned.
_manual_similarity_search(data, scanOk, query_embedding, limit, similarity_threshold) ==
    IF ~scanOk THEN [raised |-> FALSE, value |-> <<>>]
    ELSE IF data = <<>> THEN [raised |-> FALSE, value |-> <<>>]
    ELSE [raised |-> FALSE,
          value |-> SliceTo(SortDesc(<<>>, ScanLoop(<<>>, data, query_embedding,
                                                    similarity_threshold)), limit)]

\* The rows a select(...).limit(n) without an order clause may return: any n
\* rows of the table (all of them when n exceeds the table), in any order.
RECURSIVE Orderings(_)
Orderings(S) ==
    IF S = {} THEN {<<>>}
    ELSE UNION {{<<x>> \o t : t \in Orderings(S \ {x})} : x \in S}

ScanResults(table, n) ==
    LET m == Min(n, Len(table))
    IN  UNION {{[i \in 1..m |-> table[o[i]]] : o \in Orderings(I)} :
               I \in {J \in SUBSET (1..Len(table)) : Cardinality(J) = m}}

(* ---------------------- the primary search (RPC) ----------------------- *)
\* The similarity the server-side function gives a row: the cosine, and 0
\* for a zero-norm vector
ServerSimilarity(query_embedding, row) ==
    IF NormSq(query_embedding) > 0 /\ NormSq(row.embedding.vec) > 0
    THEN CosineSim(query_embedding, row.embedding.vec)
    ELSE SimZero

RECURSIVE Rankable(_, _)
Rankable(table, query_embedding) ==
    IF table = <<>> THEN <<>>
    ELSE LET row == Head(table)
             rest == Rankable(Tail(table), query_embedding)
         IN  IF row.embedding.rep = "str" /\ row.embedding.vec.dim = query_embedding.dim
             THEN <<[url |-> row.url, content |-> row.content, metadata |-> row.metadata,
                     similarity |-> ServerSimilarity(query_embedding, row)]>> \o rest
             ELSE rest

\* match_crawled_pages(query_embedding, match_count, filter = {}, source_filter
\* = None): the rows of the whole table ranked by cosine similarity, highest
\* first, ties in insertion order, at most match_count of them
match_crawled_pages(table, query_embedding, match_count) ==
    Take(SortDesc(<<>>, Rankable(table, query_embedding)), match_count)

(* ----------------------------- the facade ------------------------------ *)
\* the loop over result.data with the threshold test left out
RECURSIVE FilterResultsUnfiltered(_, _)
FilterResultsUnfiltered(data, similarity_threshold) ==
    IF data = <<>> THEN <<>>
    ELSE <<FormatResult(Head(data), Get(Head(data), "similarity", SimZero))>>
         \o FilterResultsUnfiltered(Tail(data), similarity_threshold)

\* The loop over result.data in search_vector_database: keep the items whose
\* similarity reaches the threshold, formatted, in the order received
RECURSIVE FilterResults(_, _)
FilterResults(data, similarity_threshold) ==
    IF data = <<>> THEN <<>>
    ELSE LET item == Head(data)
             similarity == Get(item, "similarity", SimZero)
             rest == FilterResults(Tail(data), similarity_threshold)
         IN  IF SimGE(similarity, similarity_threshold)
             THEN <<FormatResult(item, similarity)>> \o rest
             ELSE rest

\* The loop over result.data raises: an item that reaches the threshold has
\* metadata None
FilterRaises(data, similarity_threshold) ==
    \E i \in 1..Len(data) :
        /\ SimGE(Get(data[i], "similarity", SimZero), similarity_threshold)
        /\ MetadataRaises(data[i])

\* the else branch left out, as in VectorSearchTester.search_similar_forms
\* (which returns [] on an empty answer)
TakesFallbackNever(rpcData) == FALSE

\* "if result.data: ... else:" of search_vector_database: an empty answer of
\* the RPC sends the query to the fallback
TakesFallback(rpcData) == rpcData = <<>>

\* What the methods print, as <<message, detail>>
EmbeddingErrorMessage(query) == <<"Error creating embedding", query>>
ManualFailedMessage == <<"Manual similarity search failed", "">>

\* the lines create_query_embedding prints: one when encode raises
EmbeddingPrints(query, modelOk) ==
    IF modelOk THEN <<>> ELSE <<EmbeddingErrorMessage(query)>>

\* the lines _manual_similarity_search prints: one when the table read
\* raises; nothing for a record it skips
ManualPrints(scanOk) == IF scanOk THEN <<>> ELSE <<ManualFailedMessage>>

\* CourtFormsAgent.search_vector_database.  The environment supplies: e1, e2
\* whether the embedding model works on the first and on the second call;
\* rpc, what the RPC does ("ok", "empty": it returns no rows, "raise");
\* scanOk and data, whether the table read of the fallback works and the
\* rows it returns.  The value is the returned list, whether an exception
\* left the method, the calls made in order, what the RPC answered, the
\* vectors handed to each search, the row counts asked of the table read and
\* the lines printed.
search_vector_database(client, table, query, limit, similarity_threshold, e1, e2, rpc, scanOk, data) ==
    IF ~client
    THEN [results |-> <<>>, raised |-> FALSE, calls |-> <<>>,
          rpc_outcome |-> "not called", rpc_rows |-> 0, scan_outcome |-> "not called",
          primary_vecs |-> <<>>, fallback_vecs |-> <<>>, scan_requests |-> <<>>,
          printed |-> <<<<"Supabase client not initialized", "">>>>]
    ELSE LET q1 == create_query_embedding(query, e1)
             q2 == create_query_embedding(query, e2)
             rpcData == IF rpc = "ok" THEN match_crawled_pages(table, q1, limit) ELSE <<>>
             fb1 == _manual_similarity_search(data, scanOk, q1, limit, similarity_threshold)
             fb2 == _manual_similarity_search(data, scanOk, q2, limit, similarity_threshold)
             scanned == IF ~scanOk THEN "raised"
                        ELSE IF data = <<>> THEN "empty" ELSE "rows"
             \* the except branch: embed again, then the fallback
             handler(callsSoFar, outcome, fvecs, requests, printedSoFar) ==
                 [results |-> fb2.value, raised |-> fb2.raised,
                  calls |-> callsSoFar \o <<"embed", "fallback">>,
                  rpc_outcome |-> outcome,
                  rpc_rows |-> IF outcome = "rows" THEN Len(rpcData) ELSE 0,
                  scan_outcome |-> scanned,
                  primary_vecs |-> <<q1>>, fallback_vecs |-> fvecs \o <<q2>>,
                  scan_requests |-> requests \o <<ScanLimit(limit)>>,
                  printed |-> printedSoFar
                              \o <<<<"Error searching vector database", query>>,
                                   <<"Trying manual similarity calculation", "">>>>
                              \o EmbeddingPrints(query, e2) \o ManualPrints(scanOk)]
             zeroResults == <<<<"Database function returned 0 results", "">>>>
         IN  IF rpc = "raise"
             THEN handler(<<"embed", "rpc">>, "raised", <<>>, <<>>, EmbeddingPrints(query, e1))
             ELSE IF ~TakesFallback(rpcData) /\ FilterRaises(rpcData, similarity_threshold)
             \* formatting raised inside the try: the except branch runs
             THEN handler(<<"embed", "rpc">>, "rows", <<>>, <<>>, EmbeddingPrints(query, e1))
             ELSE IF ~TakesFallback(rpcData)
             THEN [results |-> FilterResults(rpcData, similarity_threshold),
                   raised |-> FALSE, calls |-> <<"embed", "rpc">>,
                   rpc_outcome |-> IF rpcData = <<>> THEN "empty" ELSE "rows",
                   rpc_rows |-> Len(rpcData), scan_outcome |-> "not called",
                   primary_vecs |-> <<q1>>, fallback_vecs |-> <<>>,
                   scan_requests |-> <<>>, printed |-> EmbeddingPrints(query, e1)]
             ELSE IF fb1.raised
             THEN handler(<<"embed", "rpc", "fallback">>, "empty", <<q1>>,
                          <<ScanLimit(limit)>>,
                          EmbeddingPrints(query, e1) \o zeroResults)
             ELSE [results |-> fb1.value, raised |-> FALSE,
                   calls |-> <<"embed", "rpc", "fallback">>,
                   rpc_outcome |-> "empty", rpc_rows |-> 0, scan_outcome |-> scanned,
                   primary_vecs |-> <<q1>>, fallback_vecs |-> <<q1>>,
                   scan_requests |-> <<ScanLimit(limit)>>,
                   printed |-> EmbeddingPrints(query, e1) \o zeroResults
                               \o ManualPrints(scanOk)]

Limits == 0..MaxLimit
\* the limits around ScanCap / ScanFactor, where limit * 20 passes 1000
LargeLimits == {ScanCap \div ScanFactor, ScanCap \div ScanFactor + 1}
\* a limit below zero, which no caller of the repository passes and nothing
\* in the method forbids
NegativeLimits == {-1}
\* 0.0 (LegalAgentAPI.search_forms) and 0.1 (the default)
Thresholds == {[num |-> 0, den |-> 1], [num |-> 1, den |-> 100]}
RpcModes == {"ok", "empty", "raise"}

\* The table read answering with the first n rows in insertion order: one of
\* the answers of ScanResults, and the usual one of a table never updated.
\* A store that does not raise on a negative n has ignored it.
ScanInOrder(table, n) == IF n < 0 THEN {table} ELSE {Take(table, n)}

HasNullMetadata(table) == \E i \in 1..Len(table) : MetadataRaises(table[i])

\* One call of search_vector_database; the table read of the fallback gives
\* any answer of ScanResults, or (inOrder) the rows in insertion order.  The
\* observation keeps the arguments, what the environment did (env) and what
\* the call did and returned.
SearchOver(inOrder) ==
    /\ last.op = "idle"
    /\ \E query \in QueryTexts, limit \in (IF inOrder THEN Limits \cup LargeLimits \cup NegativeLimits ELSE Limits),
          similarity_threshold \in Thresholds,
          e1 \in BOOLEAN, rpc \in RpcModes, scanOk \in BOOLEAN :
      \* the second embedding call happens only in the except branch: after
      \* the RPC raised, or after formatting a row without metadata raised;
      \* the table read returns rows only when it works
      \E e2 \in (IF rpc = "raise" \/ (rpc = "ok" /\ HasNullMetadata(crawled_pages))
                 THEN BOOLEAN ELSE {e1}),
         data \in (IF ~scanOk THEN {<<>>}
                   ELSE IF inOrder THEN ScanInOrder(crawled_pages, ScanLimit(limit))
                   ELSE ScanResults(crawled_pages, ScanLimit(limit))) :
           \E out \in {search_vector_database(supabase_client, crawled_pages, query, limit,
                                              similarity_threshold, e1, e2, rpc, scanOk, data)} :
               /\ last' = [op |-> "search", query |-> query, limit |-> limit,
                           similarity_threshold |-> similarity_threshold,
                           env |-> [e1 |-> e1, e2 |-> e2, rpc |-> rpc, scanOk |-> scanOk],
                           results |-> out.results, raised |-> out.raised,
                           calls |-> out.calls, rpc_outcome |-> out.rpc_outcome,
                           rpc_rows |-> out.rpc_rows, scan_outcome |-> out.scan_outcome,
                           primary_vecs |-> out.primary_vecs,
                           fallback_vecs |-> out.fallback_vecs,
                           scan_requests |-> out.scan_requests,
                           printed |-> out.printed]
               /\ UNCHANGED <<supabase_client, crawled_pages, mcp_session_id>>

Search == SearchOver(FALSE)

(* ------------------------ writing the table ---------------------------- *)
\* f"{self.base_domain}/find-forms?query={query}"
SearchUrl(topic) == <<"find-forms?query=", topic>>

Forms == [form_code : Codes, title : Titles]

RECURSIVE SeqsUpTo(_, _)
SeqsUpTo(S, n) ==
    IF n = 0 THEN {<<>>}
    ELSE LET shorter == SeqsUpTo(S, n - 1)
         IN  shorter \cup {Append(t, x) : t \in {u \in shorter : Len(u) = n - 1}, x \in S}

\* What the store does with an insert, per call of the crawler: "none", every
\* insert is judged on its rows alone; "batch", a multi-row insert raises a
\* transient error and single-row inserts work; "down", every request raises
StoreFaults == {"none", "batch", "down"}

HasDuplicateKeys(docs) ==
    \E i, j \in 1..Len(docs) : i < j /\ KeyOf(docs[i]) = KeyOf(docs[j])

\* table(...).insert(rows).execute(): one statement, all rows or none.  The
\* UNIQUE(url, chunk_number) constraint rejects it with a "duplicate key"
\* error when a key is already in the table or occurs twice in rows.
Insert(table, rows, isBatch, fault) ==
    IF fault = "down" \/ (fault = "batch" /\ isBatch)
    THEN [ok |-> FALSE, error |-> "connection", table |-> table, data |-> <<>>]
    ELSE IF HasDuplicateKeys(rows) \/ KeysOf(rows) \cap KeysOf(table) # {}
    THEN [ok |-> FALSE, error |-> "duplicate key", table |-> table, data |-> <<>>]
    ELSE LET stored == [i \in 1..Len(rows) |->
                          [id |-> Len(table) + i, url |-> rows[i].url,
                           chunk_number |-> rows[i].chunk_number,
                           content |-> rows[i].content, metadata |-> rows[i].metadata,
                           embedding |-> StoredEmbedding(rows[i].embedding)]]
         IN  [ok |-> TRUE, error |-> "", table |-> table \o stored, data |-> stored]

(* SimpleRobustCrawler *)
\* The "Remove duplicates" loop of crawl_topic_forms: the first form of each
\* form_code, in order
RECURSIVE UniqueForms(_, _)
UniqueForms(seen, forms) ==
    IF forms = <<>> THEN <<>>
    ELSE IF Head(forms).form_code \in seen THEN UniqueForms(seen, Tail(forms))
    ELSE <<Head(forms)>> \o UniqueForms(seen \cup {Head(forms).form_code}, Tail(forms))

\* The document store_forms_in_supabase builds for a form
SimpleDoc(form, topic, embedding) ==
    [url |-> <<SearchUrl(topic), form.form_code>>,
     chunk_number |-> 0,
     content |-> <<form.form_code, form.title, topic>>,
     metadata |-> [form_code |-> form.form_code, title |-> form.title, topic |-> topic],
     embedding |-> embedding]

\* The inner "for doc in batch" loop after a failed batch insert: each
\* document on its own; an exception is swallowed (printed unless it is a
\* duplicate key) and the document is not counted
RECURSIVE SimpleIndividualInserts(_, _, _, _)
SimpleIndividualInserts(table, stored_count, batch, fault) ==
    IF batch = <<>> THEN [table |-> table, stored_count |-> stored_count]
    ELSE LET r == Insert(table, <<Head(batch)>>, FALSE, fault)
         IN  SimpleIndividualInserts(r.table,
                                     IF r.ok THEN stored_count + 1 ELSE stored_count,
                                     Tail(batch), fault)

\* The "for i in range(0, len(documents), batch_size)" loop
RECURSIVE SimpleBatches(_, _, _, _)
SimpleBatches(table, stored_count, documents, fault) ==
    IF documents = <<>> THEN [table |-> table, stored_count |-> stored_count]
    ELSE LET batch == Take(documents, SimpleBatchSize)
             rest == SubSeq(documents, Len(batch) + 1, Len(documents))
             r == Insert(table, batch, TRUE, fault)
         IN  IF r.ok
             THEN SimpleBatches(r.table, stored_count + Len(r.data), rest, fault)
             ELSE LET s == SimpleIndividualInserts(table, stored_count, batch, fault)
                  IN  SimpleBatches(s.table, s.stored_count, rest, fault)

\* SimpleRobustCrawler.store_forms_in_supabase.  modelOk = FALSE is
\* embedding_model.encode raising, which the outer except reports.
store_forms_in_supabase(table, forms, topic, modelOk, fault) ==
    IF forms = <<>>
    THEN [table |-> table, ret |-> TRUE, stored_count |-> 0, errors |-> 0,
          documents |-> <<>>]
    ELSE IF ~modelOk
    THEN [table |-> table, ret |-> FALSE, stored_count |-> 0, errors |-> 1,
          documents |-> <<>>]
    ELSE LET documents == [i \in 1..Len(forms) |->
                 SimpleDoc(forms[i], topic,
                           EncodeContent(<<forms[i].form_code, forms[i].title, topic>>))]
             r == SimpleBatches(table, 0, documents, fault)
         IN  [table |-> r.table, ret |-> TRUE, stored_count |-> r.stored_count,
              errors |-> 0, documents |-> documents]

(* ComprehensiveLegalCrawler *)
\* The document process_and_store_forms builds for a form
ComprehensiveDoc(form, topic) ==
    [url |-> <<SearchUrl(topic), "">>,
     chunk_number |-> 0,
     content |-> <<form.form_code, form.title, topic>>,
     metadata |-> [topic |-> topic, form_code |-> form.form_code,
                   form_title |-> form.title]]

\* The batch loop of store_documents_with_embeddings: a failed batch is
\* reported in stats["errors"] and skipped
RECURSIVE ComprehensiveBatches(_, _, _, _, _)
ComprehensiveBatches(table, stored_count, errors, documents, fault) ==
    IF documents = <<>>
    THEN [table |-> table, stored_count |-> stored_count, errors |-> errors]
    ELSE LET batch == Take(documents, ComprehensiveBatchSize)
             rest == SubSeq(documents, Len(batch) + 1, Len(documents))
             r == Insert(table, batch, TRUE, fault)
         IN  IF r.ok
             THEN ComprehensiveBatches(r.table, stored_count + Len(batch), errors, rest, fault)
             ELSE ComprehensiveBatches(table, stored_count, errors + 1, rest, fault)

\* ComprehensiveLegalCrawler.verify_storage: the rows of the topic are at
\* least expected_count; FALSE when the select raises
verify_storage(table, expected_count, topic, fault) ==
    IF fault = "down" THEN FALSE
    ELSE Cardinality({i \in 1..Len(table) :
                        Get(table[i].metadata, "topic", "") = topic}) >= expected_count

\* ComprehensiveLegalCrawler.store_documents_with_embeddings on the table
\* crawled_pages
store_documents_with_embeddings(table, docs, topic, modelOk, fault) ==
    IF docs = <<>>
    THEN [table |-> table, ret |-> TRUE, stored_count |-> 0, errors |-> 0,
          documents |-> <<>>]
    ELSE LET embeddings == create_embeddings([i \in 1..Len(docs) |-> docs[i].content],
                                             modelOk)
             documents == [i \in 1..Len(docs) |->
                             [url |-> docs[i].url, chunk_number |-> docs[i].chunk_number,
                              content |-> docs[i].content, metadata |-> docs[i].metadata,
                              embedding |-> embeddings[i]]]
             r == ComprehensiveBatches(table, 0, 0, documents, fault)
         IN  [table |-> r.table,
              ret |-> verify_storage(r.table, r.stored_count, topic, fault),
              stored_count |-> r.stored_count, errors |-> r.errors,
              documents |-> documents]

\* process_and_store_forms: one document per form, then the store call
process_and_store_forms(table, forms_data, topic, modelOk, fault) ==
    store_documents_with_embeddings(
        table, [i \in 1..Len(forms_data) |-> ComprehensiveDoc(forms_data[i], topic)],
        topic, modelOk, fault)

\* The rows of the table that carry the same (url, chunk_number, content,
\* metadata) as the document
SameRecord(row, doc) ==
    /\ row.url = doc.url /\ row.chunk_number = doc.chunk_number
    /\ row.content = doc.content /\ row.metadata = doc.metadata

\* The rows of the table that have the key of one of the documents
RECURSIVE RowsKeyedLike(_, _)
RowsKeyedLike(table, documents) ==
    IF table = <<>> THEN <<>>
    ELSE IF KeyOf(Head(table)) \in KeysOf(documents)
         THEN <<Head(table)>> \o RowsKeyedLike(Tail(table), documents)
         ELSE RowsKeyedLike(Tail(table), documents)

\* What a store call did: the forms it was given, its documents, its return
\* value, stored_count, the number of entries it added to stats["errors"];
\* and of the table before the call, the number of rows and the rows with a
\* key of the documents
IngestObservation(crawler, out, fault, modelOk, forms) ==
    [op |-> "ingest", crawler |-> crawler, fault |-> fault, modelOk |-> modelOk,
     forms |-> forms,
     documents |-> out.documents, ret |-> out.ret, stored_count |-> out.stored_count,
     errors |-> out.errors, before_len |-> Len(crawled_pages),
     prior |-> RowsKeyedLike(crawled_pages, out.documents)]

\* One topic of SimpleRobustCrawler.crawl_all_topics: crawl, then store
SimpleCrawlTopic ==
    /\ last.op = "idle"
    /\ supabase_client
    /\ \E links \in SeqsUpTo(Forms, MaxForms), modelOk \in BOOLEAN, fault \in StoreFaults :
        \E out \in {store_forms_in_supabase(crawled_pages, UniqueForms({}, links), Topic,
                                            modelOk, fault)} :
            /\ crawled_pages' = out.table
            /\ last' = IngestObservation("simple", out, fault, modelOk,
                                         UniqueForms({}, links))
            /\ UNCHANGED <<supabase_client, mcp_session_id>>

\* One topic of ComprehensiveLegalCrawler.crawl_all_topics: crawl, then
\* process and store
ComprehensiveCrawlTopic ==
    /\ last.op = "idle"
    /\ supabase_client
    /\ \E forms_data \in SeqsUpTo(Forms, MaxForms), modelOk \in BOOLEAN, fault \in StoreFaults :
        \E out \in {process_and_store_forms(crawled_pages, forms_data, Topic, modelOk,
                                            fault)} :
            /\ crawled_pages' = out.table
            /\ last' = IngestObservation("comprehensive", out, fault, modelOk, forms_data)
            /\ UNCHANGED <<supabase_client, mcp_session_id>>

(* --------------------------- specification ----------------------------- *)
Init ==
    /\ supabase_client \in BOOLEAN
    /\ crawled_pages = <<>>
    /\ last = [op |-> "idle"]
    /\ mcp_session_id = NoSession

\* The caller takes the result of a call that has ended; the next call may
\* start
Return ==
    /\ last.op # "idle"
    /\ last.op = "crawl_all_topics" => last.status # "running"
    /\ last' = [op |-> "idle"]
    /\ UNCHANGED <<supabase_client, crawled_pages, mcp_session_id>>

Next == Search \/ SimpleCrawlTopic \/ ComprehensiveCrawlTopic \/ Return

Spec == Init /\ [][Next]_vars

(* ------------- the fallback on a table larger than its scan ------------ *)
OtherCodes ==
    <<"FL-101", "FL-102", "FL-103", "FL-104", "FL-105", "FL-106", "FL-107",
      "FL-108", "FL-109", "FL-110", "FL-111", "FL-112", "FL-113", "FL-114",
      "FL-115", "FL-116", "FL-117", "FL-118", "FL-119", "FL-120", "FL-121">>

\* The forms of one crawl: n forms, the p-th of them FL-100 "Petition"
CrawledForms(n, p) ==
    [i \in 1..n |-> IF i = p THEN [form_code |-> "FL-100", title |-> "Petition"]
                    ELSE [form_code |-> OtherCodes[i], title |-> "Petition español"]]

CorpusSizes == ScanFactor..(ScanFactor + 1)

\* The table after SimpleRobustCrawler stored the n forms of one crawl
InitScan ==
    /\ supabase_client = TRUE
    /\ \E n \in CorpusSizes : \E p \in 1..n :
         crawled_pages = store_forms_in_supabase(<<>>, CrawledForms(n, p), Topic,
                                                 TRUE, "none").table
    /\ last = [op |-> "idle"]
    /\ mcp_session_id = NoSession

SearchInOrder == SearchOver(TRUE)

NextScan == SearchInOrder \/ Return

SpecScan == InitScan /\ [][NextScan]_vars

(* ------- the fallback on embeddings in every stored representation ----- *)
MaxRows == 2         \* rows of a table whose embedding column is read back

\* a vector of another dimension than the model's
ShortVec == [dim |-> 3, lead |-> <<1, 0>>]

\* What a client may read in the embedding column of a row, after
\* fix_embeddings.py: None; a string (the text of a vector of the model's
\* dimension or of another one, or text that is no literal at all); a
\* native list
EmbeddingReadings ==
    {StoredEmbedding(Vec(1, 0)), StoredEmbedding(Vec(1, 10)), StoredEmbedding(ZeroVec),
     StoredEmbedding(ShortVec),
     [rep |-> "null"], [rep |-> "garbled"],
     [rep |-> "list", vec |-> Vec(1, 0)], [rep |-> "list", vec |-> ShortVec]}

StoredCodes == <<"FL-100", "FL-300">> \o OtherCodes

\* The i-th row of a table SimpleRobustCrawler filled, its embedding column
\* reading as given
StoredRow(i, reading) ==
    LET doc == SimpleDoc([form_code |-> StoredCodes[i], title |-> "Petition"], Topic, ZeroVec)
    IN  [id |-> i, url |-> doc.url, chunk_number |-> doc.chunk_number,
         content |-> doc.content, metadata |-> doc.metadata, embedding |-> reading]

InitStored ==
    /\ supabase_client = TRUE
    /\ \E n \in 1..MaxRows : \E readings \in [1..n -> EmbeddingReadings] :
         crawled_pages = [i \in 1..n |-> StoredRow(i, readings[i])]
    /\ last = [op |-> "idle"]
    /\ mcp_session_id = NoSession

(* fix_embeddings.py *)
\* "isinstance(embedding, str)": the records fix_embeddings puts on
\* records_to_fix
IsStringEmbedding(reading) == reading.rep \in {"str", "garbled"}

\* "isinstance(embedding, list) and len(embedding) == 384"
IsValidListEmbedding(reading) ==
    reading.rep = "list" /\ reading.vec.dim = EmbeddingDim

\* The loop over records_to_fix for one row: a record with a string embedding
\* gets the embedding of its content, when encode and the update work; the
\* column then reads back as readsAs.  Every other row is left as it is.
FixRecord(row, modelOk, storeOk, readsAs) ==
    IF IsStringEmbedding(row.embedding) /\ modelOk /\ storeOk
    THEN [row EXCEPT !.embedding = [rep |-> readsAs, vec |-> EncodeContent(row.content)]]
    ELSE row

\* One run of fix_embeddings: read every row, re-embed the string ones.  The
\* observation keeps the three counts it prints and fixed_count.
FixEmbeddings ==
    /\ last.op = "idle"
    /\ supabase_client
    /\ crawled_pages # <<>>
    /\ \E modelOk \in BOOLEAN, storeOk \in BOOLEAN, readsAs \in {"list", "str"} :
         \E fixed \in {[i \in 1..Len(crawled_pages) |->
                          FixRecord(crawled_pages[i], modelOk, storeOk, readsAs)]} :
            /\ crawled_pages' = fixed
            /\ last' = [op |-> "fix", modelOk |-> modelOk, storeOk |-> storeOk,
                        string_embeddings |->
                            Cardinality({i \in 1..Len(crawled_pages) :
                                           IsStringEmbedding(crawled_pages[i].embedding)}),
                        null_embeddings |->
                            Cardinality({i \in 1..Len(crawled_pages) :
                                           crawled_pages[i].embedding.rep = "null"}),
                        valid_embeddings |->
                            Cardinality({i \in 1..Len(crawled_pages) :
                                           IsValidListEmbedding(crawled_pages[i].embedding)}),
                        fixed_count |->
                            Cardinality({i \in 1..Len(crawled_pages) :
                                           /\ IsStringEmbedding(crawled_pages[i].embedding)
                                           /\ modelOk /\ storeOk})]
            /\ UNCHANGED <<supabase_client, mcp_session_id>>

NextStored == SearchInOrder \/ FixEmbeddings \/ Return

SpecStored == InitStored /\ [][NextStored]_vars

(* ---------------- the readers on rows of any metadata ------------------- *)
\* What the metadata column of the i-th row may read as: the object the
\* crawler wrote, an object with the topic only, the empty object (the
\* column default), JSON null
MetadataReadings == {"full", "topic only", "empty", "null"}

MetadataOf(reading, i) ==
    CASE reading = "full"       -> StoredRow(i, StoredEmbedding(Vec(1, 0))).metadata
      [] reading = "topic only" -> [topic |-> Topic]
      [] reading = "empty"      -> EmptyMetadata
      [] OTHER                  -> NullMetadata

MetaRow(i, reading) ==
    [StoredRow(i, StoredEmbedding(Vec(1, 0))) EXCEPT !.metadata = MetadataOf(reading, i)]

RECURSIVE FormatTopicResults(_)
FormatTopicResults(data) ==
    IF data = <<>> THEN <<>>
    ELSE LET item == Head(data)
             metadata == item.metadata
         IN  <<[title     |-> _clean_title_to_english(Get(metadata, "title", "Unknown Form")),
                url       |-> item.url,
                form_code |-> Get(metadata, "form_code", ""),
                topic     |-> Get(metadata, "topic", ""),
                content   |-> item.content,
                metadata  |-> metadata]>> \o FormatTopicResults(Tail(data))

\* .contains('metadata', {'topic': topic}): the rows whose metadata is an
\* object with that topic
RECURSIVE RowsOfTopic(_, _)
RowsOfTopic(table, topic) ==
    IF table = <<>> THEN <<>>
    ELSE IF ~MetadataRaises(Head(table)) /\ Get(Head(table).metadata, "topic", "") = topic
         THEN <<Head(table)>> \o RowsOfTopic(Tail(table), topic)
         ELSE RowsOfTopic(Tail(table), topic)

\* CourtFormsAgent.search_by_topic; selectOk = FALSE is the select raising
search_by_topic(client, table, topic, limit, selectOk) ==
    IF ~client \/ ~selectOk THEN <<>>
    ELSE FormatTopicResults(Take(RowsOfTopic(table, topic), limit))

TopicNames == {Topic, "adoption"}

SearchByTopic ==
    /\ last.op = "idle"
    /\ \E topic \in TopicNames, limit \in Limits, selectOk \in BOOLEAN :
         last' = [op |-> "search_by_topic", topic |-> topic, limit |-> limit,
                  selectOk |-> selectOk,
                  results |-> search_by_topic(supabase_client, crawled_pages, topic, limit,
                                              selectOk),
                  raised |-> FALSE]
    /\ UNCHANGED <<supabase_client, crawled_pages, mcp_session_id>>

InitMeta ==
    /\ supabase_client = TRUE
    /\ \E n \in 1..MaxRows : \E readings \in [1..n -> MetadataReadings] :
         crawled_pages = [i \in 1..n |-> MetaRow(i, readings[i])]
    /\ last = [op |-> "idle"]
    /\ mcp_session_id = NoSession

NextMeta == SearchInOrder \/ SearchByTopic \/ Return

SpecMeta == InitMeta /\ [][NextMeta]_vars

(* ------------------------- the MCP session id -------------------------- *)
\* "if self.mcp_session_id:" / "if not session_id:": None and "" are false
Truthy(session) == session.set /\ session.id # ""

SessionIds == {"", "4f2a", "9c1e"}

\* The lines of the SSE response, as <<prefix, rest>>: the endpoint
\* announcement "data: /messages/?session_id=<id>" and other lines
SseLines ==
    {<<"data: /messages/?session_id=", id>> : id \in SessionIds}
        \cup {<<"event: endpoint", "">>}

MaxLines == 2        \* lines of one SSE response

\* What urlopen(MCP_BASE_URL/sse) gives: a response of some lines, or an
\* exception
SseResponses ==
    {[raises |-> FALSE, lines |-> l] : l \in SeqsUpTo(SseLines, MaxLines)}
        \cup {[raises |-> TRUE, lines |-> <<>>]}

\* The loop over the response: the id of the first announcement line, or
\* the session as it was when there is none
RECURSIVE FirstSessionLine(_, _)
FirstSessionLine(lines, session) ==
    IF lines = <<>> THEN session
    ELSE IF Head(lines)[1] = "data: /messages/?session_id="
         THEN SessionOf(Head(lines)[2])
         ELSE FirstSessionLine(Tail(lines), session)

\* the test of the cached id left out: every call connects
get_mcp_session_id_uncached(session, sse) ==
    IF sse.raises
    THEN [session |-> SessionOf("test-session-123"), opened |-> TRUE]
    ELSE [session |-> FirstSessionLine(sse.lines, session), opened |-> TRUE]

\* CourtFormsAgent.get_mcp_session_id: the session id it leaves in
\* self.mcp_session_id (which it returns) and whether it opened the SSE
\* endpoint
get_mcp_session_id(session, sse) ==
    IF Truthy(session) THEN [session |-> session, opened |-> FALSE]
    ELSE IF sse.raises
    THEN [session |-> SessionOf("test-session-123"), opened |-> TRUE]
    ELSE [session |-> FirstSessionLine(sse.lines, session), opened |-> TRUE]

\* A direct call of get_mcp_session_id
GetMcpSessionId ==
    /\ last.op = "idle"
    /\ \E sse \in SseResponses :
         \E out \in {get_mcp_session_id(mcp_session_id, sse)} :
            /\ mcp_session_id' = out.session
            /\ last' = [op |-> "get_mcp_session_id", cached |-> mcp_session_id,
                        sse |-> sse, returned |-> out.session, opened |-> out.opened]
    /\ UNCHANGED <<supabase_client, crawled_pages>>

\* CourtFormsAgent.call_mcp_tool: get the session id, give up without one,
\* else post the request to /messages/?session_id=<id>; postOk is whether
\* the request went through
CallMcpTool ==
    /\ last.op = "idle"
    /\ \E sse \in SseResponses, postOk \in BOOLEAN :
         \E out \in {get_mcp_session_id(mcp_session_id, sse)} :
            /\ mcp_session_id' = out.session
            /\ last' = [op |-> "call_mcp_tool", cached |-> mcp_session_id,
                        sse |-> sse, returned |-> out.session, opened |-> out.opened,
                        posted |-> Truthy(out.session),
                        result |-> IF ~Truthy(out.session) THEN "error: no session id"
                                   ELSE IF postOk THEN "response" ELSE "error"]
    /\ UNCHANGED <<supabase_client, crawled_pages>>

InitMcp ==
    /\ supabase_client \in BOOLEAN
    /\ crawled_pages = <<>>
    /\ last = [op |-> "idle"]
    /\ mcp_session_id = NoSession

NextMcp == GetMcpSessionId \/ CallMcpTool \/ Return

SpecMcp == InitMcp /\ [][NextMcp]_vars

(* ----------------------- the loop over the topics ---------------------- *)
MaxTopics == 3

\* self.popular_topics, the configured list: its first MaxTopics entries
popular_topics ==
    Take(<<"adoption", "appeals", "child custody and visitation", "child support",
           "civil", "civil harassment">>, MaxTopics)

\* What happens in the try block of one iteration: crawl_topic_forms returns
\* forms, or returns [] (nothing found, or its own except caught an error),
\* or an exception escapes from a call of the block, or the user presses
\* Ctrl-C (KeyboardInterrupt)
IterationEvents == {"forms", "none", "raise", "interrupt"}

\* The state of the loop before its first iteration: successful_topics = 0
\* and the fresh self.stats
LoopStart(crawler) ==
    [op |-> "crawl_all_topics", crawler |-> crawler, status |-> "running",
     attempted |-> <<>>, topics_processed |-> 0, successful_topics |-> 0,
     errors |-> 0]

\* One iteration of SimpleRobustCrawler.crawl_all_topics: KeyboardInterrupt
\* breaks the loop, any other exception is recorded and the loop goes on
SimpleTopicIteration(st, table, topic, event, forms, modelOk, fault) ==
    LET at == [st EXCEPT !.attempted = Append(@, topic)]
        out == store_forms_in_supabase(table, forms, topic, modelOk, fault)
    IN  CASE event = "interrupt" -> [table |-> table, st |-> [at EXCEPT !.status = "interrupted"]]
          [] event = "raise" -> [table |-> table, st |-> [at EXCEPT !.errors = @ + 1]]
          [] event = "none" -> [table |-> table, st |-> [at EXCEPT !.topics_processed = @ + 1]]
          [] event = "forms" ->
               [table |-> out.table,
                st |-> [at EXCEPT !.topics_processed = @ + 1,
                                  !.successful_topics = IF out.ret THEN @ + 1 ELSE @,
                                  !.errors = @ + out.errors]]

\* The same iteration with the handler of the try block taken away: the
\* exception leaves the loop
ComprehensiveTopicIterationUncaught(st, table, topic, event, forms_data, modelOk, fault) ==
    LET at == [st EXCEPT !.attempted = Append(@, topic)]
        out == process_and_store_forms(table, forms_data, topic, modelOk, fault)
    IN  CASE event = "interrupt" -> [table |-> table, st |-> [at EXCEPT !.status = "interrupted"]]
          [] event = "raise" -> [table |-> table, st |-> [at EXCEPT !.status = "raised"]]
          [] event = "none" -> [table |-> table, st |-> at]
          [] event = "forms" ->
               [table |-> out.table,
                st |-> [at EXCEPT !.topics_processed = IF out.ret THEN @ + 1 ELSE @,
                                  !.successful_topics = IF out.ret THEN @ + 1 ELSE @,
                                  !.errors = @ + out.errors]]

\* One iteration of ComprehensiveLegalCrawler.crawl_all_topics: "except
\* Exception" records the error and continues; KeyboardInterrupt is not an
\* Exception and leaves the method
ComprehensiveTopicIteration(st, table, topic, event, forms_data, modelOk, fault) ==
    LET at == [st EXCEPT !.attempted = Append(@, topic)]
        out == process_and_store_forms(table, forms_data, topic, modelOk, fault)
    IN  CASE event = "interrupt" -> [table |-> table, st |-> [at EXCEPT !.status = "interrupted"]]
          [] event = "raise" -> [table |-> table, st |-> [at EXCEPT !.errors = @ + 1]]
          [] event = "none" -> [table |-> table, st |-> at]
          [] event = "forms" ->
               [table |-> out.table,
                st |-> [at EXCEPT !.topics_processed = IF out.ret THEN @ + 1 ELSE @,
                                  !.successful_topics = IF out.ret THEN @ + 1 ELSE @,
                                  !.errors = @ + out.errors]]

\* crawl_all_topics is called; the run followed is the first one, on the
\* empty table
CrawlAllTopicsStart ==
    /\ last.op = "idle"
    /\ supabase_client
    /\ crawled_pages = <<>>
    /\ \E crawler \in {"simple", "comprehensive"} : last' = LoopStart(crawler)
    /\ UNCHANGED <<supabase_client, crawled_pages, mcp_session_id>>

\* "for i, topic in enumerate(self.popular_topics, 1)": the next topic of the
\* list, while there is one
CrawlAllTopicsIteration ==
    /\ last.op = "crawl_all_topics"
    /\ last.status = "running"
    /\ Len(last.attempted) < Len(popular_topics)
    /\ \E event \in IterationEvents, forms \in SeqsUpTo(Forms, 1) \ {<<>>},
          modelOk \in BOOLEAN, fault \in StoreFaults :
        \E out \in {IF last.crawler = "simple"
                    THEN SimpleTopicIteration(last, crawled_pages,
                             popular_topics[Len(last.attempted) + 1], event, forms,
                             modelOk, fault)
                    ELSE ComprehensiveTopicIteration(last, crawled_pages,
                             popular_topics[Len(last.attempted) + 1], event, forms,
                             modelOk, fault)} :
            /\ crawled_pages' = out.table
            /\ last' = out.st
    /\ UNCHANGED <<supabase_client, mcp_session_id>>

\* The list is exhausted: the summary is printed and the method returns
CrawlAllTopicsReturn ==
    /\ last.op = "crawl_all_topics"
    /\ last.status = "running"
    /\ Len(last.attempted) = Len(popular_topics)
    /\ last' = [last EXCEPT !.status = "returned"]
    /\ UNCHANGED <<supabase_client, crawled_pages, mcp_session_id>>

InitTopics ==
    /\ supabase_client \in BOOLEAN
    /\ crawled_pages = <<>>
    /\ last = [op |-> "idle"]
    /\ mcp_session_id = NoSession

NextTopics ==
    CrawlAllTopicsStart \/ CrawlAllTopicsIteration \/ CrawlAllTopicsReturn \/ Return

\* The loop is straight-line code whose network calls carry timeouts: a
\* started iteration ends and the next statement runs
SpecTopics ==
    /\ InitTopics /\ [][NextTopics]_vars
    /\ WF_vars(CrawlAllTopicsIteration) /\ WF_vars(CrawlAllTopicsReturn)

(* ------------------------------ claims --------------------------------- *)
IsSearch == last.op = "search"
IsIngest == last.op = "ingest"

CountOf(calls, name) == Cardinality({i \in 1..Len(calls) : calls[i] = name})

AllReachThreshold(results, similarity_threshold) ==
    \A i \in 1..Len(results) : SimGE(results[i].similarity, similarity_threshold)

\* C1: when the RPC raises, search_vector_database raises nothing, hands the
\* query to the fallback and returns rows of the table, each with a
\* similarity that reaches the threshold.
C1_GracefulDegradation ==
    (IsSearch /\ last.rpc_outcome = "raised") =>
        /\ ~last.raised
        /\ last.calls[Len(last.calls)] = "fallback"
        /\ AllReachThreshold(last.results, last.similarity_threshold)
        /\ \A i \in 1..Len(last.results) :
             \E j \in 1..Len(crawled_pages) : crawled_pages[j].url = last.results[i].url

C1_Witness ==
    /\ IsSearch /\ last.rpc_outcome = "raised" /\ ~last.raised
    /\ Len(last.results) >= 1
    /\ Len(last.results) < Len(crawled_pages)

\* C2: whenever the RPC raises or returns no rows, the fallback is entered
\* exactly once before the query returns, and no fallback is entered before
\* the RPC was called.
C2_FallbackOnceAfterPrimary ==
    IsSearch =>
        /\ (last.rpc_outcome \in {"raised", "empty"}) => CountOf(last.calls, "fallback") = 1
        /\ \A i \in 1..Len(last.calls) :
             last.calls[i] = "fallback" => \E j \in 1..(i - 1) : last.calls[j] = "rpc"

C2_Witness ==
    /\ IsSearch /\ last.rpc_outcome = "empty"
    /\ CountOf(last.calls, "fallback") = 1
    /\ Len(last.results) >= 1

\* C3: every result search_vector_database returns has a similarity that is
\* at least the threshold of the call, on the primary and on the fallback
\* path.
C3_ResultsReachThreshold ==
    IsSearch => AllReachThreshold(last.results, last.similarity_threshold)

C3_Witness ==
    /\ IsSearch /\ last.rpc_outcome = "rows"
    /\ Len(last.results) >= 1
    /\ Len(last.results) < last.rpc_rows

\* C4: a query with result limit k >= 0 returns at most k results.
C4_AtMostLimit ==
    (IsSearch /\ last.limit >= 0) => Len(last.results) <= last.limit

C4_Witness ==
    /\ IsSearch /\ last.rpc_outcome \in {"raised", "empty"}
    /\ last.limit >= 1
    /\ Len(last.results) = last.limit
    /\ Len(crawled_pages) > last.limit
    /\ \A j \in 1..Len(crawled_pages) :
         /\ NormSq(crawled_pages[j].embedding.vec) > 0
         /\ SimGE(CosineSim(last.fallback_vecs[1], crawled_pages[j].embedding.vec),
                  last.similarity_threshold)

\* The place of a result's record in the table (rows are in insertion order;
\* every row of the model has chunk_number 0, so the url identifies it)
InsertionIndex(url) == CHOOSE j \in 1..Len(crawled_pages) : crawled_pages[j].url = url

\* C5: the result list is ordered by non-increasing similarity, and results
\* of equal similarity appear in insertion order, earliest first.
C5_RankedTiesByInsertion ==
    IsSearch =>
        \A i, j \in 1..Len(last.results) :
            i < j =>
                /\ SimGE(last.results[i].similarity, last.results[j].similarity)
                /\ SimEQ(last.results[i].similarity, last.results[j].similarity)
                     => InsertionIndex(last.results[i].url) < InsertionIndex(last.results[j].url)

\* Two ranked lists agree up to tie-breaking: the same length and the same
\* similarity at every rank
SameRanking(a, b) ==
    /\ Len(a) = Len(b)
    /\ \A i \in 1..Len(a) : SimEQ(a[i].similarity, b[i].similarity)

AllParseable(table) ==
    \A j \in 1..Len(table) :
        /\ table[j].embedding.rep = "str"
        /\ table[j].embedding.vec.dim = EmbeddingDim

NoZeroNorm(table, q) ==
    /\ NormSq(q) > 0
    /\ \A j \in 1..Len(table) : NormSq(table[j].embedding.vec) > 0

\* C6: when every stored embedding is parseable, the fallback (scan, threshold
\* filter, sort, top k) returns the ranking the primary search gives over the
\* whole table for the same vector and k, cut at the same threshold, up to
\* tie-breaking.  (Stated for vectors of positive norm.)
C6_FallbackMatchesPrimary ==
    (/\ IsSearch /\ ~last.raised
     /\ last.scan_outcome \in {"rows", "empty"}
     /\ AllParseable(crawled_pages)
     /\ NoZeroNorm(crawled_pages, last.fallback_vecs[Len(last.fallback_vecs)]))
    => SameRanking(last.results,
                   FilterResults(match_crawled_pages(
                                     crawled_pages,
                                     last.fallback_vecs[Len(last.fallback_vecs)],
                                     last.limit),
                                 last.similarity_threshold))

\* str.strip() == "" on the query texts of the model
IsBlank(text) == text \in {"", " "}

\* C7: a query whose text is empty or whitespace-only is rejected with an
\* error before any embedding call and any store call.
C7_BlankQueryRejected ==
    (IsSearch /\ supabase_client /\ IsBlank(last.query)) =>
        /\ last.raised
        /\ last.calls = <<>>

RowsWithKey(table, doc) ==
    {j \in 1..Len(table) : KeyOf(table[j]) = KeyOf(doc)}

\* the call stored one document, the store answered every request, and the
\* embedding model worked
IsPlainPut ==
    /\ IsIngest /\ last.fault = "none" /\ last.modelOk
    /\ Len(last.documents) = 1

\* C8: a put of a record identical in (url, chunk_number, content, metadata)
\* to one already stored leaves exactly one row for its key, returns
\* success and reports no error.
C8_IdenticalPutIdempotent ==
    (/\ IsPlainPut
     /\ \E j \in 1..Len(last.prior) : SameRecord(last.prior[j], last.documents[1]))
    => /\ Cardinality(RowsWithKey(crawled_pages, last.documents[1])) = 1
       /\ last.ret
       /\ last.errors = 0

\* C9: a put of a record whose (url, chunk_number) is already stored leaves
\* exactly one row for the key, carrying the new content, metadata and
\* embedding.
C9_ReingestUpdates ==
    (/\ IsPlainPut
     /\ RowsWithKey(last.prior, last.documents[1]) # {})
    => /\ Cardinality(RowsWithKey(crawled_pages, last.documents[1])) = 1
       /\ \A j \in RowsWithKey(crawled_pages, last.documents[1]) :
            /\ crawled_pages[j].content = last.documents[1].content
            /\ crawled_pages[j].metadata = last.documents[1].metadata
            /\ crawled_pages[j].embedding.vec = last.documents[1].embedding

\* C10: when the batch insert fails while the store still takes single rows,
\* every record of the batch ends up stored (a record whose key was already
\* there counts as stored), and the reported count is the number of rows the
\* call added.  (Stated for batches whose records have distinct keys.)
C10_BatchFailureFallsBackPerRecord ==
    (/\ IsIngest /\ last.modelOk /\ last.fault # "down"
     /\ ~HasDuplicateKeys(last.documents))
    => /\ \A i \in 1..Len(last.documents) :
            RowsWithKey(crawled_pages, last.documents[i]) # {}
       /\ last.stored_count = Len(crawled_pages) - last.before_len

\* The rows the table read of the observed call returned (the scan answers in
\* insertion order) and the vector the fallback ranked them against
ScannedRows ==
    CHOOSE data \in ScanInOrder(crawled_pages, last.scan_requests[Len(last.scan_requests)]) : TRUE
FallbackVec == last.fallback_vecs[Len(last.fallback_vecs)]

RECURSIVE ParseableRows(_, _)
ParseableRows(data, query_vec) ==
    IF data = <<>> THEN <<>>
    ELSE IF Parses(Head(data), query_vec)
         THEN <<Head(data)>> \o ParseableRows(Tail(data), query_vec)
         ELSE ParseableRows(Tail(data), query_vec)

\* C11: when the fallback scans rows of which some have a missing,
\* unparsable or wrong-dimension embedding, the call raises nothing and
\* returns what the fallback returns on the remaining rows alone.
C11_UnparsableRecordsSkipped ==
    (IsSearch /\ last.scan_outcome = "rows") =>
        /\ ~last.raised
        /\ last.results =
             _manual_similarity_search(ParseableRows(ScannedRows, FallbackVec), TRUE,
                                       FallbackVec, last.limit,
                                       last.similarity_threshold).value

C11_Witness ==
    /\ IsSearch /\ last.scan_outcome = "rows"
    /\ Len(ParseableRows(ScannedRows, FallbackVec)) < Len(ScannedRows)
    /\ ~Parses(ScannedRows[Len(ScannedRows)], FallbackVec)
    /\ Len(last.results) >= 1

\* C12: when the fallback skipped at least one record it could not parse,
\* the call leaves a count of the skipped records to be seen: a printed line
\* that reports it (the returned list holds results only).
C12_SkippedCountObservable ==
    (/\ IsSearch /\ last.scan_outcome = "rows"
     /\ Len(ParseableRows(ScannedRows, FallbackVec)) < Len(ScannedRows))
    => \E i \in 1..Len(last.printed) : last.printed[i][1] = "Skipped records"

\* a scanned row the fallback can parse whose embedding, or the query vector,
\* has zero norm
IsZeroNormCandidate(row) ==
    /\ Parses(row, FallbackVec)
    /\ (NormSq(FallbackVec) = 0 \/ NormSq(row.embedding.vec) = 0)

\* C13: in the fallback, a candidate whose embedding or whose query vector
\* has zero norm gets similarity 0: when the threshold is at most 0 it is in
\* the results with similarity 0, unless k results of similarity >= 0 fill
\* the list; and the call raises nothing.
C13_ZeroNormIsSimilarityZero ==
    (/\ IsSearch /\ last.scan_outcome = "rows"
     /\ SimGE(SimZero, last.similarity_threshold))
    => /\ ~last.raised
       /\ \A i \in 1..Len(ScannedRows) :
            IsZeroNormCandidate(ScannedRows[i]) =>
               \/ \E r \in 1..Len(last.results) :
                     /\ last.results[r].url = ScannedRows[i].url
                     /\ SimEQ(last.results[r].similarity, SimZero)
               \/ /\ Len(last.results) = last.limit
                  /\ AllReachThreshold(last.results, SimZero)

\* C14: every table read of the fallback asks for at most 1000 rows,
\* whatever the limit of the call.
C14_ScanAtMostCap ==
    IsSearch => \A i \in 1..Len(last.scan_requests) : last.scan_requests[i] <= ScanCap

C14_Witness ==
    /\ IsSearch /\ last.limit * ScanFactor > ScanCap
    /\ last.scan_requests = <<ScanCap>>

\* the store could not be reached during the observed call: the client was
\* never initialised, or the RPC and the table read of the fallback both
\* raised
StoreUnreachable ==
    \/ ~supabase_client
    \/ (last.rpc_outcome = "raised" /\ last.scan_outcome = "raised")

\* C15: a query that could not reach the store ends in a StoreUnavailable
\* failure raised to its caller, never in an empty result list.
C15_StoreUnavailableSurfaced ==
    (IsSearch /\ StoreUnreachable) => last.raised

\* C16: when the primary search fails (the RPC raises or answers no rows)
\* and the table read of the fallback raises, search_vector_database returns
\* the empty list and raises nothing.
C16_BothFailReturnsEmpty ==
    (/\ IsSearch /\ last.rpc_outcome \in {"raised", "empty"}
     /\ last.scan_outcome = "raised")
    => /\ last.results = <<>>
       /\ ~last.raised

C16_Witness ==
    /\ IsSearch /\ last.rpc_outcome = "raised" /\ last.scan_outcome = "raised"
    /\ crawled_pages # <<>>
    /\ last.results = <<>> /\ ~last.raised
    /\ last.printed[Len(last.printed)] = ManualFailedMessage

\* The observed call made again with another threshold: the same query,
\* limit and table, the environment answering as it did (the table read in
\* insertion order)
SearchAgain(similarity_threshold) ==
    search_vector_database(supabase_client, crawled_pages, last.query, last.limit,
                           similarity_threshold, last.env.e1, last.env.e2, last.env.rpc,
                           last.env.scanOk,
                           IF last.env.scanOk
                           THEN CHOOSE data \in ScanInOrder(crawled_pages,
                                                            ScanLimit(last.limit)) : TRUE
                           ELSE <<>>)

C18_EmptyCorpusReturnsEmpty ==
    (IsSearch /\ crawled_pages = <<>>) =>
        /\ last.results = <<>>
        /\ ~last.raised

C18_Witness ==
    /\ IsSearch /\ crawled_pages = <<>> /\ supabase_client
    /\ last.env.rpc = "ok" /\ last.limit >= 1
    /\ last.calls = <<"embed", "rpc", "fallback">>
    /\ last.scan_outcome = "empty"
    /\ last.results = <<>> /\ ~last.raised

\* C19: the embedder gives one vector per input text, in input order, each
\* of dimension 384, and 384 zeros per input when the model raises: for the
\* contents of the documents ComprehensiveLegalCrawler embeds, and for the
\* query of a search.
C19_EmbedderShape ==
    /\ (IsIngest /\ last.crawler = "comprehensive") =>
          /\ Len(last.documents) = Len(last.forms)
          /\ \A i \in 1..Len(last.documents) :
               /\ last.documents[i].embedding.dim = EmbeddingDim
               /\ Len(last.documents[i].embedding.lead) <= EmbeddingDim
               /\ last.documents[i].embedding =
                    (IF last.modelOk THEN EncodeContent(last.documents[i].content)
                     ELSE ZeroVec)
    /\ IsSearch =>
          /\ \A i \in 1..Len(last.primary_vecs) :
               /\ last.primary_vecs[i].dim = EmbeddingDim
               /\ ~last.env.e1 => last.primary_vecs[i] = ZeroVec
          /\ \A i \in 1..Len(last.fallback_vecs) :
               last.fallback_vecs[i].dim = EmbeddingDim

C19_Witness ==
    /\ IsIngest /\ last.crawler = "comprehensive" /\ ~last.modelOk
    /\ Len(last.forms) = MaxForms
    /\ Len(last.documents) = MaxForms
    /\ \A i \in 1..Len(last.documents) : last.documents[i].embedding = ZeroVec

\* the call was given forms whose records have distinct keys, none of them
\* in the table (which was empty), and the store answered every request
IsFreshIngest ==
    /\ IsIngest /\ last.fault = "none" /\ last.before_len = 0
    /\ last.forms # <<>>
    /\ (last.crawler = "simple" \/ Len(last.forms) = 1)

\* C20: when the embedding model raises during an ingestion, the records of
\* the batch are stored all the same, with zero vectors as embeddings.
C20_EmbeddingFailureKeepsIngesting ==
    (IsFreshIngest /\ ~last.modelOk) =>
        /\ last.stored_count = Len(last.forms)
        /\ Len(crawled_pages) = Len(last.forms)
        /\ \A i \in 1..Len(crawled_pages) :
             /\ crawled_pages[i].embedding.vec = ZeroVec
             /\ crawled_pages[i].metadata.form_code = last.forms[i].form_code

\* C21: a query with a negative limit is rejected with an error at once: no
\* embedding, no RPC, no fallback, and no list returned.
C21_NegativeLimitRejected ==
    (IsSearch /\ supabase_client /\ last.limit < 0) =>
        /\ last.raised
        /\ last.calls = <<>>

IsFix == last.op = "fix"

\* C22: after a run of fix_embeddings in which encode and every update
\* worked, no row is left with an invalid embedding: every row carries a
\* vector of dimension 384.
C22_FixRepairsEveryInvalid ==
    (IsFix /\ last.modelOk /\ last.storeOk) =>
        \A i \in 1..Len(crawled_pages) :
            /\ crawled_pages[i].embedding.rep \in {"list", "str"}
            /\ crawled_pages[i].embedding.vec.dim = EmbeddingDim

IsMcpCall == last.op \in {"get_mcp_session_id", "call_mcp_tool"}

\* C23: once the agent holds a session id, every later call of
\* get_mcp_session_id (direct or from call_mcp_tool) returns that id, keeps
\* it, and opens no connection to the SSE endpoint.
C23_SessionIdCached ==
    (IsMcpCall /\ Truthy(last.cached)) =>
        /\ last.returned = last.cached
        /\ mcp_session_id = last.cached
        /\ ~last.opened

C23_Witness ==
    /\ IsMcpCall /\ Truthy(last.cached)
    /\ last.cached.id = "4f2a"
    /\ ~last.sse.raises
    /\ Len(last.sse.lines) >= 1
    /\ last.sse.lines[1] = <<"data: /messages/?session_id=", "9c1e">>
    /\ last.returned = last.cached

IsTopicSearch == last.op = "search_by_topic"

\* the defaults a reader gives a row whose metadata lacks the fields
HasDefaults(result) ==
    /\ result.title = "Unknown Form"
    /\ result.form_code = ""

LacksFields(row) == MetadataRaises(row) \/ "title" \notin DOMAIN row.metadata

\* the observed search ranked the whole table: the model embedded the
\* query, a search path answered with rows, and the limit admits every row
RankedWholeTable ==
    /\ IsSearch /\ last.env.e1 /\ last.env.e2
    /\ (last.rpc_outcome = "rows" \/ last.scan_outcome = "rows")
    /\ last.scan_outcome # "raised"
    /\ last.limit >= Len(crawled_pages)

\* C24: a reader formats a row whose metadata is empty or null with the
\* defaults ('Unknown Form', '', '') instead of failing or dropping it: in
\* search_vector_database on both paths, and in search_by_topic for the rows
\* its filter selects.
C24_MetadataOptional ==
    /\ RankedWholeTable =>
          \A j \in 1..Len(crawled_pages) :
              LacksFields(crawled_pages[j]) =>
                  \E r \in 1..Len(last.results) :
                      /\ last.results[r].url = crawled_pages[j].url
                      /\ HasDefaults(last.results[r])
    /\ (IsTopicSearch /\ last.selectOk /\ last.limit >= Len(crawled_pages)) =>
          \A j \in 1..Len(crawled_pages) :
              (/\ ~MetadataRaises(crawled_pages[j])
               /\ Get(crawled_pages[j].metadata, "topic", "") = last.topic
               /\ LacksFields(crawled_pages[j]))
              => \E r \in 1..Len(last.results) :
                      /\ last.results[r].url = crawled_pages[j].url
                      /\ HasDefaults(last.results[r])

\* C25: every vector handed to the fallback search is the vector that was
\* handed to the primary search of the same call.
C25_FallbackGetsPrimaryVector ==
    (IsSearch /\ last.primary_vecs # <<>>) =>
        \A i \in 1..Len(last.fallback_vecs) : last.fallback_vecs[i] = last.primary_vecs[1]

IsCrawlAll == last.op = "crawl_all_topics"

IsPrefix(s, t) == Len(s) <= Len(t) /\ s = Take(t, Len(s))

\* C26: crawl_all_topics attempts the configured topics one after the other
\* in list order, each once (the topics attempted so far are always a prefix
\* of the list); unless the user interrupts it, it stops only after the whole
\* list was attempted, whatever failed on the way; and a started run ends.
C26_EveryTopicAttemptedInOrder ==
    /\ [](IsCrawlAll =>
            /\ IsPrefix(last.attempted, popular_topics)
            /\ last.status \in {"running", "returned", "interrupted"}
            /\ (last.status = "returned" => last.attempted = popular_topics))
    /\ ((IsCrawlAll /\ last.status = "running") ~> (IsCrawlAll /\ last.status # "running"))

\* A run that returned although an iteration raised an exception and another
\* one failed to store
C26_Witness ==
    /\ IsCrawlAll /\ last.status = "returned"
    /\ last.errors > 0
    /\ last.successful_topics < Len(popular_topics)
    /\ last.successful_topics > 0

\* The rows the RPC of the last search answered with
PrimaryRows == match_crawled_pages(crawled_pages, last.primary_vecs[1], last.limit)

NoPrimaryRowReaches ==
    /\ IsSearch /\ last.env.rpc = "ok"
    /\ PrimaryRows # <<>>
    /\ \A i \in 1..Len(PrimaryRows) :
         ~SimGE(PrimaryRows[i].similarity, last.similarity_threshold)

\* C27: when the RPC answers with rows and none of them reaches the
\* threshold, search_vector_database returns the empty list and the fallback
\* is not called.
C27_BelowThresholdNoFallback ==
    NoPrimaryRowReaches =>
        /\ last.results = <<>> /\ ~last.raised
        /\ last.calls = <<"embed", "rpc">>
        /\ last.scan_outcome = "not called"

\* Such a search on a table of two rows
C27_Witness ==
    /\ NoPrimaryRowReaches
    /\ Len(PrimaryRows) = 2
    /\ last.results = <<>>

\* C28: in one ingestion call two distinct forms are written under distinct
\* (url, chunk_number) keys, and on a table that holds none of their keys,
\* with the store working, every document of the call is stored.
C28_DistinctFormsDistinctKeys ==
    (IsIngest /\ Len(last.documents) = Len(last.forms)) =>
        /\ \A i, j \in 1..Len(last.forms) :
             last.forms[i] # last.forms[j] =>
                 KeyOf(last.documents[i]) # KeyOf(last.documents[j])
        /\ (/\ last.fault = "none" /\ last.prior = <<>>
            /\ \A i, j \in 1..Len(last.forms) : i # j => last.forms[i] # last.forms[j])
           => last.stored_count = Len(last.documents)

\* C29: when the store call of ComprehensiveLegalCrawler returns True (the
\* value on which crawl_all_topics counts the topic as processed), every
\* document prepared for the topic was stored by this call.
C29_SuccessMeansAllStored ==
    (IsIngest /\ last.crawler = "comprehensive" /\ last.ret) =>
        /\ last.stored_count = Len(last.documents)
        /\ Len(crawled_pages) = last.before_len + Len(last.documents)

\* A scanned row the fallback has to rank: a numeric embedding of the
\* model's dimension, in the representation given, whose similarity to the
\* query is defined and reaches the threshold
MustBeRanked(row, rep) ==
    /\ row.embedding.rep = rep
    /\ row.embedding.vec.dim = EmbeddingDim
    /\ NormSq(FallbackVec) > 0 /\ NormSq(row.embedding.vec) > 0
    /\ SimGE(CosineSim(FallbackVec, row.embedding.vec), last.similarity_threshold)

RankedIn(row, results) == \E k \in 1..Len(results) : results[k].url = row.url

\* the same for serialized strings alone
SerializedEmbeddingsRanked ==
    (IsSearch /\ last.scan_outcome = "rows" /\ last.limit >= 1
        /\ Len(last.results) < last.limit) =>
        \A i \in 1..Len(ScannedRows) :
            MustBeRanked(ScannedRows[i], "str") => RankedIn(ScannedRows[i], last.results)

\* C30: the fallback ranks every scanned record whose embedding is a numeric
\* vector of dimension 384, read as a serialized string or as a native list:
\* unless the limit cut the list, such a record that reaches the threshold is
\* among the results.
C30_NativeListEmbeddingsRanked ==
    (IsSearch /\ last.scan_outcome = "rows" /\ last.limit >= 1
        /\ Len(last.results) < last.limit) =>
        \A i \in 1..Len(ScannedRows) :
            \A rep \in {"str", "list"} :
                MustBeRanked(ScannedRows[i], rep) => RankedIn(ScannedRows[i], last.results)
====
